---- MODULE Spec2Model ----
(***************************************************************************)
(* Model of requirements.py: a gamepad teleoperation script for a hub with *)
(* two drive motors.  The script connects to the gamepad in a retry loop   *)
(* and then runs one flat polling loop.  One Poll step is one iteration of *)
(* the `while True` loop, from the input reads to the final wait(50).      *)
(***************************************************************************)
EXTENDS Integers, Sequences, FiniteSets, TLC

(* ---------------------------------------------------------------------- *)
(* Program constants (module-level assignments of the script)             *)
(* ---------------------------------------------------------------------- *)
cruise_speed_init == 1000
cruise_speed_step == 100
cruise_speed_min == -2000
cruise_speed_max == 2000
turn_slowdown == 300
b_color_cycle == <<"BLUE", "CYAN", "ORANGE", "RED", "GREEN">>
b_color_index_init == -1
trigger_debug == TRUE

JoystickScale == 20
SkidThreshold == 20
RetryWaitMs == 5000
FlashWaitMs == 200
LoopWaitMs == 50
BRumblePower == 80
BRumbleDuration == 250
SkidRumblePower == 50
SkidRumbleDuration == 100

\* Python's None for a trigger reading; real readings are >= 0.
None == -1
\* The threshold 0.05 of _trigger_active, with readings counted in hundredths
\* (a float reading 0.06 is 6, an integer-scaled reading 1 is 100).
TriggerThreshold == 5

(* ---------------------------------------------------------------------- *)
(* Bounds of the model                                                    *)
(* ---------------------------------------------------------------------- *)
\* Failed connection attempts are counted up to this number (the count
\* saturates; the retry loop itself is never bounded).
MaxFailures == 2
\* B rising edges are counted up to this number (the count saturates).
MaxBEdges == 7

Min(a, b) == IF a <= b THEN a ELSE b
Max(a, b) == IF a >= b THEN a ELSE b

\* Names in Button that the script looks at.  LT and RT exist only on some
\* firmware versions (see button_if_exists).
CoreButtons == {"LB", "B", "UP", "DOWN", "LEFT", "RIGHT", "A", "Y", "RB"}
TriggerButtons == {"LT", "RT"}

VARIABLES
    pc,                     \* "connect" | "loop" | "crashed" | "aborted"
    button_names,           \* attribute names of Button on this firmware
    light,                  \* what the hub light shows
    cruise_mode,
    cruise_speed,
    b_color_index,
    previous_lb_pressed,
    previous_b_pressed,
    previous_rb_pressed,
    previous_up_pressed,
    previous_down_pressed,
    previous_lt_active,
    previous_rt_active,
    pressed,                \* controller.buttons.pressed() of the last poll
    left_vertical,
    right_vertical,
    motor1_speed,
    motor2_speed,
    \* observations of the last step (what the step did to the devices)
    motor_log,              \* motor calls of the step: <<motor, op, arg, ok>>
    rumble_log,             \* rumble calls of the step: <<power, duration>>
    light_log,              \* hub.light calls of the step: <<site, colour>>
    stop_calls,             \* invocations of stop_motors in the step
    fired,                  \* edge-triggered handlers whose body ran in the step
    wait_ms,                \* total of the wait() calls of the step
    attempt,                \* outcome of the last XboxController() call
    \* history
    failed_attempts,        \* failed XboxController() attempts (saturating)
    b_edges,                \* B handler runs since start (saturating)
    lb_edges_odd            \* the number of LB rising edges so far is odd

vars == <<pc, button_names, light, cruise_mode, cruise_speed, b_color_index,
          previous_lb_pressed, previous_b_pressed, previous_rb_pressed,
          previous_up_pressed, previous_down_pressed, previous_lt_active,
          previous_rt_active, pressed, left_vertical, right_vertical,
          motor1_speed, motor2_speed, motor_log, rumble_log, light_log,
          stop_calls, fired, wait_ms, attempt, failed_attempts, b_edges,
          lb_edges_odd>>

progvars == <<cruise_mode, cruise_speed, b_color_index,
              previous_lb_pressed, previous_b_pressed, previous_rb_pressed,
              previous_up_pressed, previous_down_pressed, previous_lt_active,
              previous_rt_active, pressed, left_vertical, right_vertical,
              motor1_speed, motor2_speed>>

(* ---------------------------------------------------------------------- *)
(* Helpers of the script                                                  *)
(* ---------------------------------------------------------------------- *)

\* set_base_light(): the colour it puts on the hub light.
BaseColor(index, mode) ==
    IF index >= 0 THEN b_color_cycle[index + 1]
    ELSE IF mode THEN "YELLOW" ELSE "GREEN"

\* _button_if_exists(name): Button.<name>, or None when getattr raises.
button_if_exists(name, names) == IF name \in names THEN name ELSE "None"

\* _trigger_active(value)
trigger_active(value) == IF value = None THEN FALSE ELSE value > TriggerThreshold

\* Mutant of RisingEdge: level-triggered, fires while the button is held.
RisingEdgeLevel(cur, prev) == cur

\* Mutant of RisingEdge: fires on the release instead of the press.
RisingEdgeOnRelease(cur, prev) == ~cur /\ prev

\* Rising edge test used by the LB, B, UP and DOWN handlers.
RisingEdge(cur, prev) == cur /\ ~prev

\* Mutant of NextColorIndex: wraps one entry early.
NextColorIndexShort(i) == (i + 1) % (Len(b_color_cycle) - 1)

\* Mutant of NextColorIndex: after the last colour the override is dropped.
NextColorIndexReset(i) == IF i + 1 >= Len(b_color_cycle) THEN -1 ELSE i + 1

\* b_color_index = (b_color_index + 1) % len(b_color_cycle)
NextColorIndex(i) == (i + 1) % Len(b_color_cycle)

\* Mutant of SpeedUp: the upper clamp is missing.
SpeedUpUnclamped(s) == s + cruise_speed_step

\* cruise_speed = min(cruise_speed + cruise_speed_step, cruise_speed_max)
SpeedUp(s) == Min(s + cruise_speed_step, cruise_speed_max)

\* Mutant of SpeedDown: the speed is clamped at 0 instead of the minimum.
SpeedDownFloorZero(s) == Max(s - cruise_speed_step, 0)

\* cruise_speed = max(cruise_speed - cruise_speed_step, cruise_speed_min)
SpeedDown(s) == Max(s - cruise_speed_step, cruise_speed_min)

\* Mutant of StopOnToggle: stops on every toggle.
StopOnAnyToggle(mode) == TRUE

\* `if not cruise_mode: stop_motors()` after the toggle: mode is the new mode.
StopOnToggle(mode) == ~mode

\* Mutant of MotorSpeeds: the two joystick axes are swapped.
MotorSpeedsSwapped(mode, speed, lv, rv) ==
    IF mode THEN <<speed, speed>> ELSE <<rv * JoystickScale, lv * JoystickScale>>

\* Mutant of MotorSpeeds: in CRUISE mode only motor 1 gets the cruise speed.
MotorSpeedsHalfCruise(mode, speed, lv, rv) ==
    IF mode THEN <<speed, rv * JoystickScale>>
    ELSE <<lv * JoystickScale, rv * JoystickScale>>

\* "Determine motor speeds": <<motor1_speed, motor2_speed>> before turn assist.
MotorSpeeds(mode, speed, lv, rv) ==
    IF mode THEN <<speed, speed>> ELSE <<lv * JoystickScale, rv * JoystickScale>>

\* Mutant of SkidSteer: the thresholds are inclusive.
SkidSteerInclusive(lv, rv) ==
    \/ (lv >= SkidThreshold /\ rv <= -SkidThreshold)
    \/ (lv <= -SkidThreshold /\ rv >= SkidThreshold)

\* Skid-steer condition of the NORMAL branch.
SkidSteer(lv, rv) ==
    \/ (lv > SkidThreshold /\ rv < -SkidThreshold)
    \/ (lv < -SkidThreshold /\ rv > SkidThreshold)

\* Mutant of TurnSlow: the slowdown is not applied.
TurnSlowNone(s) == s

\* Mutant of TurnSlow: the lower clamp is missing.
TurnSlowUnclamped(s) == s - turn_slowdown

\* max(motorN_speed - turn_slowdown, cruise_speed_min)
TurnSlow(s) == Max(s - turn_slowdown, cruise_speed_min)


\* _trigger_values(controller): api is the trigger-reading pattern the
\* controller object offers ("none" when it offers none of the three).
trigger_values(api, lt, rt) ==
    IF api \in {"triggers", "trigger_left", "trigger_l"} THEN <<lt, rt>>
    ELSE <<None, None>>

\* stop_motors(): the motor calls it makes.  fail = <<f1, f2>> says where
\* the firmware raises: f1 = 0 tier 1 succeeds, 1 `import Stop` raises,
\* 2 drive_motor1.stop(Stop.BRAKE) raises, 3 drive_motor2.stop(Stop.BRAKE)
\* raises; f2 = 0 tier 2 succeeds, 1 drive_motor1.stop() raises,
\* 2 drive_motor2.stop() raises; f3 = 0 tier 3 succeeds, 1 drive_motor1.run(0)
\* raises, 2 drive_motor2.run(0) raises.  A failed call is logged with FALSE.
StopTier1(f1) ==
    CASE f1 = 0 -> << <<1, "stop_brake", 0, TRUE>>, <<2, "stop_brake", 0, TRUE>> >>
      [] f1 = 1 -> << >>
      [] f1 = 2 -> << <<1, "stop_brake", 0, FALSE>> >>
      [] OTHER  -> << <<1, "stop_brake", 0, TRUE>>, <<2, "stop_brake", 0, FALSE>> >>

StopTier2(f2) ==
    CASE f2 = 0 -> << <<1, "stop", 0, TRUE>>, <<2, "stop", 0, TRUE>> >>
      [] f2 = 1 -> << <<1, "stop", 0, FALSE>> >>
      [] OTHER  -> << <<1, "stop", 0, TRUE>>, <<2, "stop", 0, FALSE>> >>

StopTier3(f3) ==
    CASE f3 = 0 -> << <<1, "run", 0, TRUE>>, <<2, "run", 0, TRUE>> >>
      [] f3 = 1 -> << <<1, "run", 0, FALSE>> >>
      [] OTHER  -> << <<1, "run", 0, TRUE>>, <<2, "run", 0, FALSE>> >>

\* Mutant of stop_motors: the `return` of tier 1 is missing, so tier 2 runs
\* after a successful braked stop.
stop_motors_no_return(fail) ==
    IF fail[2] = 0 THEN StopTier1(fail[1]) \o StopTier2(0)
    ELSE StopTier1(fail[1]) \o StopTier2(fail[2]) \o StopTier3(fail[3])

stop_motors(fail) ==
    IF fail[1] = 0 THEN StopTier1(0)
    ELSE IF fail[2] = 0 THEN StopTier1(fail[1]) \o StopTier2(0)
    ELSE StopTier1(fail[1]) \o StopTier2(fail[2]) \o StopTier3(fail[3])

\* stop_motors() ends with an exception: only the last tier is outside a try.
StopRaises(fail) == fail[1] /= 0 /\ fail[2] /= 0 /\ fail[3] /= 0

StopFailures == (0..3) \X (0..2) \X (0..2)
NoStopFailure == <<0, 0, 0>>

(* ---------------------------------------------------------------------- *)
(* hub.light calls of one loop iteration, section by section              *)
(* ---------------------------------------------------------------------- *)

\* Mutant of TriggerLight: the base colour is not restored on release.
TriggerLightNoRestore(lt, rt, prev_lt, prev_rt, base) ==
    IF lt \/ rt THEN
        << <<"trigger", IF lt /\ rt THEN "ORANGE" ELSE IF lt THEN "BLUE" ELSE "CYAN">> >>
    ELSE << >>

\* LT/RT trigger debug overlay
TriggerLight(lt, rt, prev_lt, prev_rt, base) ==
    IF lt \/ rt THEN
        << <<"trigger", IF lt /\ rt THEN "ORANGE" ELSE IF lt THEN "BLUE" ELSE "CYAN">> >>
    ELSE IF prev_lt \/ prev_rt THEN << <<"trigger_restore", base>> >>
    ELSE << >>

\* Button A: flash blue, then base
ALight(a, base) ==
    IF a THEN << <<"a", "BLUE">>, <<"a_restore", base>> >> ELSE << >>

\* Button Y: colour sequence, then base
YLight(y, base) ==
    IF y THEN << <<"y", "CYAN">>, <<"y", "RED">>, <<"y", "ORANGE">>,
                 <<"y", "RED">>, <<"y_restore", base>> >>
    ELSE << >>

\* Mutant of RBLight: the release does not restore the base colour.
RBLightNoRestore(rb, prev_rb, base) ==
    IF rb THEN << <<"rb", "RED">> >> ELSE << >>

\* Mutant of RBLight: red is set only when RB goes down, not while it is held.
RBLightOnPress(rb, prev_rb, base) ==
    IF rb /\ ~prev_rb THEN << <<"rb", "RED">> >>
    ELSE IF ~rb /\ prev_rb THEN << <<"rb_restore", base>> >>
    ELSE << >>

\* Button RB: red while held, base on release
RBLight(rb, prev_rb, base) ==
    IF rb THEN << <<"rb", "RED">> >>
    ELSE IF prev_rb THEN << <<"rb_restore", base>> >>
    ELSE << >>

\* What the hub light shows after a sequence of hub.light calls.
LightAfter(before, log) == IF Len(log) = 0 THEN before ELSE log[Len(log)][2]

(* ---------------------------------------------------------------------- *)
(* Initial state: the module-level assignments, before the retry loop     *)
(* ---------------------------------------------------------------------- *)
InitWith(names) ==
    /\ pc = "connect"
    /\ button_names = names
    /\ light = "RED"
    /\ cruise_mode = FALSE
    /\ cruise_speed = cruise_speed_init
    /\ b_color_index = b_color_index_init
    /\ previous_lb_pressed = FALSE
    /\ previous_b_pressed = FALSE
    /\ previous_rb_pressed = FALSE
    /\ previous_up_pressed = FALSE
    /\ previous_down_pressed = FALSE
    /\ previous_lt_active = FALSE
    /\ previous_rt_active = FALSE
    /\ pressed = {}
    /\ left_vertical = 0
    /\ right_vertical = 0
    /\ motor1_speed = 0
    /\ motor2_speed = 0
    /\ motor_log = << >>
    /\ rumble_log = << >>
    /\ light_log = << >>
    /\ stop_calls = 0
    /\ fired = {}
    /\ wait_ms = 0
    /\ attempt = "none"
    /\ failed_attempts = 0
    /\ b_edges = 0
    /\ lb_edges_odd = FALSE

Init == InitWith(CoreButtons)

(* ---------------------------------------------------------------------- *)
(* Connection retry loop                                                  *)
(* ---------------------------------------------------------------------- *)

\* Mutant of CaughtErrors: RuntimeError is not caught.
CaughtErrorsOSOnly == {"OSError"}

\* Exceptions of XboxController() that the except clause catches.
CaughtErrors == {"OSError", "RuntimeError"}
\* Exceptions XboxController() may raise: the two connection errors and, for
\* any other kind, "Exception".
ConnectErrors == {"OSError", "RuntimeError", "Exception"}

\* XboxController() succeeds, then set_base_light(); the while loop ends.
ConnectOk ==
    /\ pc = "connect"
    /\ pc' = "loop"
    /\ light_log' = << <<"connected", BaseColor(b_color_index, cruise_mode)>> >>
    /\ light' = LightAfter(light, light_log')
    /\ motor_log' = << >>
    /\ rumble_log' = << >>
    /\ stop_calls' = 0
    /\ fired' = {}
    /\ wait_ms' = 0
    /\ attempt' = "ok"
    /\ UNCHANGED <<button_names, failed_attempts, b_edges, lb_edges_odd, progvars>>

\* XboxController() raises err.  A caught error blinks orange, waits and
\* goes round the while loop again; any other one ends the program.
ConnectRaises(err, cap) ==
    /\ pc = "connect"
    /\ IF err \in CaughtErrors
       THEN /\ pc' = "connect"
            /\ light_log' = << <<"retry", "BLINK_ORANGE">> >>
            /\ wait_ms' = RetryWaitMs
       ELSE /\ pc' = "crashed"
            /\ light_log' = << >>
            /\ wait_ms' = 0
    /\ light' = LightAfter(light, light_log')
    /\ attempt' = err
    /\ failed_attempts' = Min(failed_attempts + 1, cap)
    /\ motor_log' = << >>
    /\ rumble_log' = << >>
    /\ stop_calls' = 0
    /\ fired' = {}
    /\ UNCHANGED <<button_names, b_edges, lb_edges_odd, progvars>>

(* ---------------------------------------------------------------------- *)
(* One iteration of the main loop                                         *)
(* ---------------------------------------------------------------------- *)
\* p: controller.buttons.pressed(); lv, rv: the vertical joystick axes;
\* trig = <<api, lt, rt>>: the controller's trigger API and readings;
\* fail: where stop_motors raises, should it be called.  The B handler
\* runs are counted up to bcap.
Poll(p, lv, rv, trig, fail, bcap) ==
    /\ pc = "loop"
    /\ LET \* LT/RT trigger debug
           lt_btn == button_if_exists("LT", button_names)
           rt_btn == button_if_exists("RT", button_names)
           lt_digital == IF lt_btn /= "None" THEN lt_btn \in p ELSE FALSE
           rt_digital == IF rt_btn /= "None" THEN rt_btn \in p ELSE FALSE
           vals == trigger_values(trig[1], trig[2], trig[3])
           analog == ~lt_digital /\ ~rt_digital
           lt_active == IF analog THEN trigger_active(vals[1]) ELSE lt_digital
           rt_active == IF analog THEN trigger_active(vals[2]) ELSE rt_digital
           log_trigger ==
               IF trigger_debug
               THEN TriggerLight(lt_active, rt_active, previous_lt_active,
                                 previous_rt_active,
                                 BaseColor(b_color_index, cruise_mode))
               ELSE << >>
           \* LB: toggle cruise mode
           lb_pressed == "LB" \in p
           lb_edge == RisingEdge(lb_pressed, previous_lb_pressed)
           mode == IF lb_edge THEN ~cruise_mode ELSE cruise_mode
           stops == lb_edge /\ StopOnToggle(mode)
           log_stop == IF stops THEN stop_motors(fail) ELSE << >>
           log_lb == IF lb_edge THEN << <<"lb", BaseColor(b_color_index, mode)>> >>
                     ELSE << >>
           \* B: rumble and colour cycle
           b_pressed == "B" \in p
           b_edge == RisingEdge(b_pressed, previous_b_pressed)
           index == IF b_edge THEN NextColorIndex(b_color_index) ELSE b_color_index
           log_b == IF b_edge THEN << <<"b", BaseColor(index, mode)>> >> ELSE << >>
           rumble_b == IF b_edge THEN << <<BRumblePower, BRumbleDuration>> >> ELSE << >>
           \* UP / DOWN: cruise speed
           up_pressed == "UP" \in p
           up_edge == RisingEdge(up_pressed, previous_up_pressed)
           speed_up == IF up_edge THEN SpeedUp(cruise_speed) ELSE cruise_speed
           down_pressed == "DOWN" \in p
           down_edge == RisingEdge(down_pressed, previous_down_pressed)
           speed == IF down_edge THEN SpeedDown(speed_up) ELSE speed_up
           \* motor speeds
           base_speeds == MotorSpeeds(mode, speed, lv, rv)
           rumble_skid == IF ~mode /\ SkidSteer(lv, rv)
                          THEN << <<SkidRumblePower, SkidRumbleDuration>> >>
                          ELSE << >>
           m2 == IF "RIGHT" \in p THEN TurnSlow(base_speeds[2]) ELSE base_speeds[2]
           m1 == IF "LEFT" \in p THEN TurnSlow(base_speeds[1]) ELSE base_speeds[1]
           log_run == << <<1, "run", m1, TRUE>>, <<2, "run", m2, TRUE>> >>
           \* A, Y, RB light effects
           base == BaseColor(index, mode)
           rb_pressed == "RB" \in p
           log_light == log_trigger \o log_lb \o log_b
                        \o ALight("A" \in p, base) \o YLight("Y" \in p, base)
                        \o RBLight(rb_pressed, previous_rb_pressed, base)
           \* an exception out of stop_motors ends the program there
           raised == stops /\ StopRaises(fail)
       IN  /\ pressed' = p
           /\ left_vertical' = lv
           /\ right_vertical' = rv
           /\ previous_lt_active' = IF trigger_debug THEN lt_active ELSE previous_lt_active
           /\ previous_rt_active' = IF trigger_debug THEN rt_active ELSE previous_rt_active
           /\ cruise_mode' = mode
           /\ stop_calls' = IF stops THEN 1 ELSE 0
           /\ lb_edges_odd' = IF "LB" \in p /\ "LB" \notin pressed
                               THEN ~lb_edges_odd ELSE lb_edges_odd
           /\ IF raised
              THEN /\ pc' = "aborted"
                   /\ motor_log' = log_stop
                   /\ rumble_log' = << >>
                   /\ light_log' = log_trigger
                   /\ light' = LightAfter(light, log_trigger)
                   /\ fired' = {"LB"}
                   /\ wait_ms' = 0
                   /\ UNCHANGED <<previous_lb_pressed, b_color_index,
                                  previous_b_pressed, cruise_speed,
                                  previous_up_pressed, previous_down_pressed,
                                  motor1_speed, motor2_speed,
                                  previous_rb_pressed, b_edges>>
              ELSE /\ pc' = pc
                   /\ previous_lb_pressed' = lb_pressed
                   /\ b_color_index' = index
                   /\ previous_b_pressed' = b_pressed
                   /\ cruise_speed' = speed
                   /\ previous_up_pressed' = up_pressed
                   /\ previous_down_pressed' = down_pressed
                   /\ motor1_speed' = m1
                   /\ motor2_speed' = m2
                   /\ previous_rb_pressed' = rb_pressed
                   /\ motor_log' = log_stop \o log_run
                   /\ rumble_log' = rumble_b \o rumble_skid
                   /\ light_log' = log_light
                   /\ light' = LightAfter(light, log_light)
                   /\ fired' = (IF lb_edge THEN {"LB"} ELSE {})
                               \cup (IF b_edge THEN {"B"} ELSE {})
                               \cup (IF up_edge THEN {"UP"} ELSE {})
                               \cup (IF down_edge THEN {"DOWN"} ELSE {})
                   /\ wait_ms' = (IF "A" \in p THEN FlashWaitMs ELSE 0)
                                 + (IF "Y" \in p THEN 4 * FlashWaitMs ELSE 0)
                                 + LoopWaitMs
                   /\ b_edges' = IF b_edge THEN Min(b_edges + 1, bcap) ELSE b_edges
    /\ UNCHANGED <<button_names, attempt, failed_attempts>>

\* stop_motors is reached only on a toggle-off edge: its failure points are
\* an input of those iterations alone.
StopInputs(p, F) ==
    IF "LB" \in p /\ ~previous_lb_pressed /\ cruise_mode THEN F ELSE {NoStopFailure}

PollWith(B, J, T, F, bcap) ==
    \E p \in SUBSET (B \cap button_names), lv \in J, rv \in J, trig \in T :
        \E fail \in StopInputs(p, F) : Poll(p, lv, rv, trig, fail, bcap)

\* The same, with the inputs <<p, lv, rv, trig>> drawn from the set I.
PollFrom(I, F, bcap) ==
    \E i \in I :
        \E fail \in StopInputs(i[1], F) : Poll(i[1], i[2], i[3], i[4], fail, bcap)

IdleTriggers == {<<"triggers", 0, 0>>}

(* ---------------------------------------------------------------------- *)
(* Specifications: the same program under different input alphabets.      *)
(* Only Spec keeps the two history counters.                              *)
(* ---------------------------------------------------------------------- *)

\* Connection, colour cycle and light effects: no driving input.
LightButtons == {"LB", "B", "A", "Y", "RB"}
NextLight ==
    \/ ConnectOk
    \/ \E err \in ConnectErrors : ConnectRaises(err, MaxFailures)
    \/ PollWith(LightButtons, {0}, IdleTriggers, {NoStopFailure}, MaxBEdges)
Spec == Init /\ [][NextLight]_vars

\* The four edge-triggered buttons.
EdgeButtons == {"LB", "B", "UP", "DOWN"}
NextEdges ==
    \/ ConnectOk
    \/ \E err \in ConnectErrors : ConnectRaises(err, 0)
    \/ PollWith(EdgeButtons, {0}, IdleTriggers, {NoStopFailure}, 0)
SpecEdges == Init /\ [][NextEdges]_vars

\* Joystick driving with turn assist, at the initial cruise speed.
DriveButtons == {"LB", "LEFT", "RIGHT"}
DriveAxis == {-100, -60, -21, -20, 20, 21, 50, 60, 100}
NextDrive ==
    \/ ConnectOk
    \/ \E err \in ConnectErrors : ConnectRaises(err, 0)
    \/ PollWith(DriveButtons, DriveAxis, IdleTriggers, {NoStopFailure}, 0)
SpecDrive == Init /\ [][NextDrive]_vars

\* Cruise speed over its whole range, with one turn-assist button.
CruiseButtons == {"LB", "UP", "DOWN", "RIGHT"}
CruiseAxis == {-100, 50}
NextCruise ==
    \/ ConnectOk
    \/ \E err \in ConnectErrors : ConnectRaises(err, 0)
    \/ PollWith(CruiseButtons, CruiseAxis, IdleTriggers, {NoStopFailure}, 0)
SpecCruise == Init /\ [][NextCruise]_vars

\* Turn assist on both sides, cruise speed from its initial value down to
\* the minimum.
TurnButtons == {"LB", "DOWN", "LEFT", "RIGHT"}
NextTurn ==
    \/ ConnectOk
    \/ \E err \in ConnectErrors : ConnectRaises(err, 0)
    \/ PollWith(TurnButtons, CruiseAxis, IdleTriggers, {NoStopFailure}, 0)
SpecTurn == Init /\ [][NextTurn]_vars

\* Toggling cruise mode with every failure point of stop_motors.
StopButtons == {"LB", "LEFT", "RIGHT"}
StopAxis == {0, 50}
NextStop ==
    \/ ConnectOk
    \/ \E err \in ConnectErrors : ConnectRaises(err, 0)
    \/ PollWith(StopButtons, StopAxis, IdleTriggers, StopFailures, 0)
SpecStop == Init /\ [][NextStop]_vars

\* Light effects with the analog triggers: readings at the threshold (5, not
\* active) and just above it (6, active).
TriggerReadings == {<<"triggers", lt, rt>> : lt \in {5, 6}, rt \in {5, 6}}
NextTrigger ==
    \/ ConnectOk
    \/ \E err \in ConnectErrors : ConnectRaises(err, 0)
    \/ PollWith(LightButtons, {0}, TriggerReadings, {NoStopFailure}, 0)
SpecTrigger == Init /\ [][NextTrigger]_vars

\* Every kind of input, one kind at a time: every combination of the four
\* edge-triggered buttons, each button alone, the joysticks alone, the
\* triggers alone.
FrameAxis == {-50, 50}
FrameInputs ==
    {<<p, 0, 0, <<"triggers", 0, 0>> >> : p \in SUBSET EdgeButtons}
    \cup {<<{b}, 0, 0, <<"triggers", 0, 0>> >> : b \in CoreButtons}
    \cup {<<{}, lv, rv, <<"triggers", 0, 0>> >> : lv \in FrameAxis, rv \in FrameAxis}
    \cup {<<{}, 0, 0, t>> : t \in TriggerReadings}
NextFrame ==
    \/ ConnectOk
    \/ \E err \in ConnectErrors : ConnectRaises(err, 0)
    \/ PollFrom(FrameInputs, {NoStopFailure}, 0)
SpecFrame == Init /\ [][NextFrame]_vars

(* ---------------------------------------------------------------------- *)
(* Properties                                                             *)
(* ---------------------------------------------------------------------- *)

\* A loop iteration has completed (every iteration ends with two run calls).
CycleDone == pc = "loop" /\ Len(motor_log) > 0

\* The iteration's final command to motor m was run(v).
Commanded(m, v) == motor_log[Len(motor_log) - 2 + m] = <<m, "run", v, TRUE>>

\* Number of times x occurs in seq.
Count(seq, x) == Cardinality({i \in 1..Len(seq) : seq[i] = x})

\* The base colour as the documentation states it.
StatedBase(index, mode) ==
    IF index >= 0 THEN <<"BLUE", "CYAN", "ORANGE", "RED", "GREEN">>[index + 1]
    ELSE IF mode THEN "YELLOW" ELSE "GREEN"

\* C1: cruise_speed is within [-2000, 2000] in every reachable state, after
\* any sequence of polls with any UP and DOWN presses in either mode.
C1_CruiseSpeedInRange == -2000 <= cruise_speed /\ cruise_speed <= 2000

\* C1 witness: an UP press handled in CRUISE mode with the speed at the maximum.
C1_Witness ==
    CycleDone /\ cruise_mode /\ "UP" \in fired /\ "DOWN" \notin fired
    /\ cruise_speed = 2000

\* C2: stop_motors is invoked exactly once in an iteration where LB has a
\* rising edge while cruise_mode was true, and in no other iteration.
C2_StopOncePerToggleOff ==
    [][pc' = "loop" =>
         stop_calls' = IF "LB" \in pressed' /\ "LB" \notin pressed /\ cruise_mode
                       THEN 1 ELSE 0]_vars

\* C2 witness: an iteration that toggled cruise mode off and stopped the motors.
C2_Witness ==
    CycleDone /\ "LB" \in fired /\ ~cruise_mode /\ stop_calls = 1
    /\ motor_log[1] = <<1, "stop_brake", 0, TRUE>>

\* C3: the n-th rising edge of B sets b_color_index to (n-1) mod 5 and shows
\* BLUE, CYAN, ORANGE, RED, GREEN in turn, wrapping to BLUE; each B rising
\* edge issues one rumble pulse (power 80, duration 250).
C3_ColorCycle ==
    [][pc' = "loop" =>
         LET edge == "B" \in pressed' /\ "B" \notin pressed
             n == b_edges'
         IN  /\ b_edges < MaxBEdges => n = b_edges + (IF edge THEN 1 ELSE 0)
             /\ n = 0 => b_color_index' = -1
             /\ (n >= 1 /\ n < MaxBEdges) => b_color_index' = (n - 1) % 5
             /\ (edge /\ n < MaxBEdges) =>
                    Count(light_log',
                          <<"b", <<"BLUE", "CYAN", "ORANGE", "RED", "GREEN">>[((n - 1) % 5) + 1]>>) = 1
             /\ Count(rumble_log', <<80, 250>>) = IF edge THEN 1 ELSE 0]_vars

\* C3 witness: the sixth B press has wrapped the colour back to BLUE.
C3_Witness ==
    CycleDone /\ "B" \in fired /\ b_edges = 6 /\ b_color_index = 0
    /\ Count(light_log, <<"b", "BLUE">>) = 1

\* C4: an iteration ending in NORMAL mode with neither LEFT nor RIGHT held
\* commands run(20 * left_vertical) to motor 1 and run(20 * right_vertical)
\* to motor 2.
C4_NormalSpeeds ==
    (CycleDone /\ ~cruise_mode /\ "LEFT" \notin pressed /\ "RIGHT" \notin pressed)
        => /\ Commanded(1, 20 * left_vertical)
           /\ Commanded(2, 20 * right_vertical)

\* C4 witness: both sticks at 50 in NORMAL mode command 1000 to both motors.
C4_Witness ==
    CycleDone /\ ~cruise_mode /\ pressed = {}
    /\ left_vertical = 50 /\ right_vertical = 50
    /\ Commanded(1, 1000) /\ Commanded(2, 1000)

\* C5: an iteration ending in CRUISE mode with neither LEFT nor RIGHT held
\* commands both motors to cruise_speed as adjusted in that iteration,
\* whatever the joystick values.
C5_CruiseSpeeds ==
    (CycleDone /\ cruise_mode /\ "LEFT" \notin pressed /\ "RIGHT" \notin pressed)
        => /\ Commanded(1, cruise_speed)
           /\ Commanded(2, cruise_speed)

\* C5 witness: a DOWN press in CRUISE mode with the sticks apart; both motors
\* get the adjusted speed.
C5_Witness ==
    CycleDone /\ cruise_mode /\ "DOWN" \in fired /\ "UP" \notin fired
    /\ "RIGHT" \notin pressed
    /\ left_vertical = -100 /\ right_vertical = 50 /\ cruise_speed = 900
    /\ Commanded(1, 900) /\ Commanded(2, 900)

\* The speed of motor m before turn assist.
Unassisted(m) ==
    IF cruise_mode THEN cruise_speed
    ELSE IF m = 1 THEN 20 * left_vertical ELSE 20 * right_vertical

\* C6: with LEFT held the speed commanded to motor 1 is >= -2000, with RIGHT
\* held the speed commanded to motor 2 is >= -2000, in both modes; unless
\* clamped it is exactly 300 less than the speed without turn assist.
C6_TurnAssistFloor ==
    CycleDone =>
        /\ "LEFT" \in pressed =>
               /\ motor1_speed >= -2000
               /\ Commanded(1, motor1_speed)
               /\ Unassisted(1) - 300 >= -2000 => motor1_speed = Unassisted(1) - 300
        /\ "RIGHT" \in pressed =>
               /\ motor2_speed >= -2000
               /\ Commanded(2, motor2_speed)
               /\ Unassisted(2) - 300 >= -2000 => motor2_speed = Unassisted(2) - 300

\* C6 witness: LEFT held in CRUISE mode at cruise speed -1800: motor 1 is
\* clamped to -2000 while motor 2 runs at -1800.
C6_Witness ==
    CycleDone /\ cruise_mode /\ pressed = {"LEFT"} /\ cruise_speed = -1800
    /\ Commanded(1, -2000) /\ Commanded(2, -1800)

\* C7: the skid-steer rumble (power 50, duration 100) is issued in an
\* iteration exactly when it ends in NORMAL mode with the sticks beyond
\* opposite thresholds (> 20 and < -20); once, and never at exactly +/-20.
C7_SkidRumble ==
    CycleDone =>
        Count(rumble_log, <<50, 100>>) =
            IF /\ ~cruise_mode
               /\ \/ (left_vertical > 20 /\ right_vertical < -20)
                  \/ (left_vertical < -20 /\ right_vertical > 20)
            THEN 1 ELSE 0

\* C7 witness: sticks at 60 and -60 in NORMAL mode trigger the pulse.
C7_Witness ==
    CycleDone /\ ~cruise_mode /\ left_vertical = 60 /\ right_vertical = -60
    /\ rumble_log = << <<50, 100>> >>

\* C8: at the end of an iteration in which RB is not pressed but was pressed
\* in the previous one, the light shows the base colour for the values of
\* cruise_mode and b_color_index as updated in that iteration.
C8_RBReleaseRestores ==
    [][(pc = "loop" /\ pc' = "loop" /\ "RB" \in pressed /\ "RB" \notin pressed')
         => light' = StatedBase(b_color_index', cruise_mode')]_vars

\* C8 witness: RB released in the iteration that toggles cruise mode on; the
\* light goes to YELLOW.
C8_Witness ==
    CycleDone /\ "LB" \in fired /\ cruise_mode /\ b_color_index = -1
    /\ "RB" \notin pressed
    /\ light_log[Len(light_log)] = <<"rb_restore", "YELLOW">>
    /\ light = "YELLOW"

\* C9: before a construction attempt succeeds there is no input read and no
\* motor command; a failed attempt (OSError or RuntimeError) sets the light
\* blinking orange, waits 5000 ms and leaves the retry loop running, however
\* many attempts have failed; the success that follows enters the polling
\* loop with the light at the base colour (GREEN).
C9_ConnectionBringUp ==
    /\ pc /= "loop" =>
           /\ attempt /= "ok"
           /\ motor_log = << >> /\ rumble_log = << >> /\ stop_calls = 0
           /\ pressed = {} /\ fired = {}
    /\ pc = "loop" => attempt = "ok"
    /\ attempt \in {"OSError", "RuntimeError"} =>
           /\ pc = "connect"
           /\ light = "BLINK_ORANGE"
           /\ wait_ms = 5000
    /\ pc = "connect" =>
           /\ ENABLED ConnectOk
           /\ ENABLED ConnectRaises("OSError", MaxFailures)
           /\ ENABLED ConnectRaises("RuntimeError", MaxFailures)
    /\ (pc = "loop" /\ ~CycleDone) =>
           /\ light = "GREEN"
           /\ failed_attempts \in 0..MaxFailures

\* C9 witness: the polling loop entered, light GREEN, after MaxFailures
\* failed attempts.
C9_Witness ==
    pc = "loop" /\ ~CycleDone /\ failed_attempts = MaxFailures /\ light = "GREEN"

\* C10: each of the LB, B, UP and DOWN handlers runs in an iteration exactly
\* when its button is pressed in it and was not pressed in the previous one
\* (so once per press, however long it is held), with its effect on
\* cruise_mode, b_color_index, the rumble and cruise_speed; and every
\* previous_*_pressed ends the iteration equal to its button's pressed state.
C10_EdgeOncePerPress ==
    [][pc' = "loop" =>
         LET edge(b) == b \in pressed' /\ b \notin pressed
             up == IF edge("UP") /\ cruise_speed + 100 <= 2000
                   THEN cruise_speed + 100
                   ELSE IF edge("UP") THEN 2000 ELSE cruise_speed
             down == IF edge("DOWN") /\ up - 100 >= -2000
                     THEN up - 100
                     ELSE IF edge("DOWN") THEN -2000 ELSE up
         IN  /\ fired' = {b \in {"LB", "B", "UP", "DOWN"} : edge(b)}
             /\ cruise_mode' = IF edge("LB") THEN ~cruise_mode ELSE cruise_mode
             /\ b_color_index' = IF edge("B") THEN (b_color_index + 1) % 5
                                 ELSE b_color_index
             /\ Count(rumble_log', <<80, 250>>) = IF edge("B") THEN 1 ELSE 0
             /\ cruise_speed' = down
             /\ previous_lb_pressed' = ("LB" \in pressed')
             /\ previous_b_pressed' = ("B" \in pressed')
             /\ previous_rb_pressed' = ("RB" \in pressed')
             /\ previous_up_pressed' = ("UP" \in pressed')
             /\ previous_down_pressed' = ("DOWN" \in pressed')]_vars

\* C10 witness: all four buttons held over from the previous iteration, so
\* no handler has run.
C10_Witness ==
    CycleDone /\ pressed = {"LB", "B", "UP", "DOWN"} /\ fired = {}
    /\ previous_lb_pressed /\ previous_b_pressed
    /\ previous_up_pressed /\ previous_down_pressed

\* The motor calls made by stop_motors in the last iteration.
StopLog ==
    IF stop_calls = 0 THEN << >>
    ELSE IF pc = "aborted" THEN motor_log
    ELSE SubSeq(motor_log, 1, Len(motor_log) - 2)

\* The tier of stop_motors a motor call belongs to.
TierOf(entry) ==
    CASE entry[2] = "stop_brake" -> 1
      [] entry[2] = "stop" -> 2
      [] OTHER -> 3

\* Tier t was attempted with a motor call / had a call that raised / gave
\* both motors a successful command.
TierCalled(t) == \E i \in 1..Len(StopLog) : TierOf(StopLog[i]) = t
TierFailed(t) == \E i \in 1..Len(StopLog) : TierOf(StopLog[i]) = t /\ ~StopLog[i][4]
TierDone(t) ==
    \A m \in {1, 2} :
        \E i \in 1..Len(StopLog) :
            TierOf(StopLog[i]) = t /\ StopLog[i][1] = m /\ StopLog[i][4]

\* C11: stop_motors tries braked stop, plain stop, run(0) strictly in that
\* order; a later tier is attempted only if the earlier one raised; a failure
\* in tier 1 or 2 never propagates; and when stop_motors returns normally
\* both motors have a successful command from one and the same tier.
C11_StopTiers ==
    /\ pc = "aborted" => stop_calls = 1
    /\ stop_calls = 1 =>
        /\ \A i, j \in 1..Len(StopLog) :
               i < j => /\ TierOf(StopLog[i]) <= TierOf(StopLog[j])
                        /\ TierOf(StopLog[i]) = TierOf(StopLog[j])
                               => (StopLog[i][1] = 1 /\ StopLog[j][1] = 2)
        /\ \A i \in 1..Len(StopLog) : StopLog[i][3] = 0
        /\ TierCalled(2) => ~TierDone(1)
        /\ TierCalled(3) => (~TierDone(1) /\ TierFailed(2))
        /\ pc = "aborted" =>
               /\ TierOf(StopLog[Len(StopLog)]) = 3
               /\ ~StopLog[Len(StopLog)][4]
        /\ pc = "loop" =>
               /\ \E t \in 1..3 : TierDone(t)
               /\ StopLog[Len(StopLog)][4]
               /\ TierDone(TierOf(StopLog[Len(StopLog)]))

\* C11 witness: the braked stop raised on motor 2, the plain stop raised on
\* motor 1, run(0) reached both motors and the iteration went on.
C11_Witness ==
    /\ pc = "loop" /\ stop_calls = 1
    /\ StopLog = << <<1, "stop_brake", 0, TRUE>>, <<2, "stop_brake", 0, FALSE>>,
                    <<1, "stop", 0, FALSE>>,
                    <<1, "run", 0, TRUE>>, <<2, "run", 0, TRUE>> >>

\* The run calls to motor m in the last iteration.
RunCalls(m) ==
    {i \in 1..Len(motor_log) : motor_log[i][1] = m /\ motor_log[i][2] = "run"}

\* The NORMAL-mode speed of an axis, less turn assist when its button is held.
NormalCommand(v, button) ==
    IF button \in pressed
    THEN (IF 20 * v - 300 >= -2000 THEN 20 * v - 300 ELSE -2000)
    ELSE 20 * v

\* C16 as claimed: every iteration issues exactly one run command to each
\* motor, the last motor command of the iteration; in a toggle-off iteration
\* the stop commands come first and the run commands carry the NORMAL-mode
\* speeds.
C16_OneRunPerMotor ==
    CycleDone =>
        /\ \A m \in {1, 2} : Cardinality(RunCalls(m)) = 1
        /\ motor_log[Len(motor_log) - 1][1] = 1 /\ motor_log[Len(motor_log) - 1][2] = "run"
        /\ motor_log[Len(motor_log)][1] = 2 /\ motor_log[Len(motor_log)][2] = "run"
        /\ stop_calls = 1 =>
               /\ Len(StopLog) > 0
               /\ Commanded(1, NormalCommand(left_vertical, "LEFT"))
               /\ Commanded(2, NormalCommand(right_vertical, "RIGHT"))

\* C16 as amended: every completed iteration ends with exactly one run
\* command to each motor, the last motor commands of the iteration; the only
\* other run commands are the run(0) fallback of stop_motors, present only
\* when both the braked and the plain stop raised; in a toggle-off iteration
\* the stop commands come first and the final run commands carry the
\* NORMAL-mode speeds.
C16_OneFinalRunPerMotor ==
    CycleDone =>
        /\ motor_log[Len(motor_log) - 1] = <<1, "run", motor1_speed, TRUE>>
        /\ motor_log[Len(motor_log)] = <<2, "run", motor2_speed, TRUE>>
        /\ Len(motor_log) = Len(StopLog) + 2
        /\ \A m \in {1, 2} :
               Cardinality(RunCalls(m)) =
                   1 + Cardinality({i \in 1..Len(StopLog) :
                                        TierOf(StopLog[i]) = 3 /\ StopLog[i][1] = m})
        /\ \A i \in 1..Len(StopLog) :
               TierOf(StopLog[i]) = 3 =>
                   (StopLog[i][3] = 0 /\ ~TierDone(1) /\ TierFailed(2))
        /\ (stop_calls = 0 \/ TierDone(1) \/ TierDone(2)) =>
               \A m \in {1, 2} : Cardinality(RunCalls(m)) = 1
        /\ stop_calls = 1 =>
               /\ Len(StopLog) > 0
               /\ ~cruise_mode
               /\ Commanded(1, NormalCommand(left_vertical, "LEFT"))
               /\ Commanded(2, NormalCommand(right_vertical, "RIGHT"))

\* C16 witness: a toggle-off iteration whose stop fell back to run(0), with
\* the left stick at 50 and LEFT held: motor 1 ends at 700, motor 2 at 0.
C16_Witness ==
    CycleDone /\ stop_calls = 1 /\ TierCalled(3) /\ pressed = {"LB", "LEFT"}
    /\ left_vertical = 50 /\ right_vertical = 0
    /\ Commanded(1, 700) /\ Commanded(2, 0)
    /\ Cardinality(RunCalls(1)) = 2

\* C12: at the end of every iteration in which RB is pressed the hub light
\* is RED, whatever the mode, the colour override, the triggers and the
\* other buttons.
C12_RedWhileRBHeld == (CycleDone /\ "RB" \in pressed) => light = "RED"

\* C12 witness: RB held over from the previous iteration while LB and B are
\* newly pressed, A and Y are down and both triggers are active; the base
\* colour is BLUE and the light is RED.
C12_Witness ==
    CycleDone /\ pressed = {"LB", "B", "A", "Y", "RB"} /\ fired = {"LB", "B"}
    /\ previous_lt_active /\ previous_rt_active
    /\ light_log[1] = <<"trigger", "ORANGE">>
    /\ light_log[Len(light_log) - 1] = <<"y_restore", "BLUE">>
    /\ Len(light_log) = 11
    /\ light = "RED"

\* The colour of the trigger combination.
TriggerColor(lt, rt) == IF lt /\ rt THEN "ORANGE" ELSE IF lt THEN "BLUE" ELSE "CYAN"

\* The iteration's trigger logic restored the base colour.
TriggerRestored(log) == \E i \in 1..Len(log) : log[i][1] = "trigger_restore"

\* C13 as claimed: at the end of every iteration in which a trigger is active
\* and RB is not held the light shows the trigger colour (ORANGE both, BLUE
\* LT only, CYAN RT only); the trigger logic restores the base colour only in
\* an iteration where both triggers are inactive and one was active before.
C13_TriggerOverlay ==
    [][(pc = "loop" /\ pc' = "loop") =>
         /\ ((previous_lt_active' \/ previous_rt_active') /\ "RB" \notin pressed')
                => light' = TriggerColor(previous_lt_active', previous_rt_active')
         /\ TriggerRestored(light_log')
                => /\ ~previous_lt_active' /\ ~previous_rt_active'
                   /\ (previous_lt_active \/ previous_rt_active)]_vars

\* C15: at the end of every iteration in which RB is not held and neither
\* trigger is active, the hub light shows the base colour of the current
\* state (the override colour if b_color_index >= 0, else YELLOW in CRUISE
\* and GREEN in NORMAL mode).
C15_LightConsistency ==
    (pc = "loop" /\ "RB" \notin pressed
       /\ ~previous_lt_active /\ ~previous_rt_active)
        => light = StatedBase(b_color_index, cruise_mode)

\* C15 witness: the triggers were released in an iteration that also toggled
\* cruise mode on with A and Y down; the light ends YELLOW.
C15_Witness ==
    CycleDone /\ pressed = {"LB", "A", "Y"} /\ fired = {"LB"}
    /\ ~previous_lt_active /\ ~previous_rt_active
    /\ TriggerRestored(light_log)
    /\ light_log[1] = <<"trigger_restore", "GREEN">>
    /\ cruise_mode /\ b_color_index = -1 /\ light = "YELLOW"

\* C14: cruise_speed changes only in an iteration with a rising edge of UP
\* or DOWN, in either mode, whatever the other inputs; a lone UP edge sets it
\* to min(cruise_speed + 100, 2000), a lone DOWN edge to
\* max(cruise_speed - 100, -2000).
C14_CruiseSpeedFrame ==
    [][LET up == "UP" \in pressed' /\ "UP" \notin pressed
           down == "DOWN" \in pressed' /\ "DOWN" \notin pressed
       IN  /\ cruise_speed' /= cruise_speed => (pc' = "loop" /\ (up \/ down))
           /\ (pc' = "loop" /\ up /\ ~down) =>
                  cruise_speed' = (IF cruise_speed + 100 <= 2000
                                   THEN cruise_speed + 100 ELSE 2000)
           /\ (pc' = "loop" /\ down /\ ~up) =>
                  cruise_speed' = (IF cruise_speed - 100 >= -2000
                                   THEN cruise_speed - 100 ELSE -2000)]_vars

\* C14 witness: a lone DOWN press in NORMAL mode takes the speed to 1900,
\* after the colour has been cycled three times.
C14_Witness ==
    CycleDone /\ ~cruise_mode /\ fired = {"DOWN"} /\ pressed = {"DOWN"}
    /\ cruise_speed = 1900 /\ b_color_index = 2

\* C17: b_color_index is always in [-1, 4], changes only on a B rising edge
\* and never returns to -1; once it is >= 0 an LB toggle shows the unchanged
\* override colour and YELLOW is never shown again.
C17_OverrideIrreversible ==
    [][LET b_edge == "B" \in pressed' /\ "B" \notin pressed
           lb_edge == "LB" \in pressed' /\ "LB" \notin pressed
       IN  /\ b_color_index' \in -1..4
           /\ b_color_index' /= b_color_index => (pc' = "loop" /\ b_edge)
           /\ b_color_index >= 0 => b_color_index' >= 0
           /\ (b_color_index >= 0 /\ pc' = "loop") =>
                  /\ light' /= "YELLOW"
                  /\ \A i \in 1..Len(light_log') : light_log'[i][2] /= "YELLOW"
                  /\ lb_edge =>
                         Count(light_log',
                               <<"lb", <<"BLUE", "CYAN", "ORANGE", "RED", "GREEN">>[b_color_index + 1]>>) = 1]_vars

\* C17 witness: with the override at ORANGE an LB press toggles cruise mode
\* on and the light stays ORANGE.
C17_Witness ==
    CycleDone /\ b_color_index = 2 /\ fired = {"LB"} /\ cruise_mode
    /\ light_log = << <<"lb", "ORANGE">> >> /\ light = "ORANGE"

\* C18 as claimed: in an iteration where UP and DOWN both have a rising
\* edge, cruise_speed after the iteration equals cruise_speed before it.
C18_UpDownCancel ==
    [][(pc' = "loop" /\ "UP" \in pressed' /\ "UP" \notin pressed
          /\ "DOWN" \in pressed' /\ "DOWN" \notin pressed)
         => cruise_speed' = cruise_speed]_vars

\* C18 as amended: UP and DOWN rising edges in one iteration leave
\* cruise_speed unchanged for every value in [-2000, 1900]; at 2000 the UP
\* step is clamped first and the iteration leaves cruise_speed at 1900.
C18_UpDownCancelBelowMax ==
    [][(pc' = "loop" /\ "UP" \in pressed' /\ "UP" \notin pressed
          /\ "DOWN" \in pressed' /\ "DOWN" \notin pressed)
         => cruise_speed' = (IF cruise_speed = 2000 THEN 1900 ELSE cruise_speed)]_vars

\* C18 witness: UP and DOWN pressed together with the speed at the lower
\* bound (only -2000 leads to -2000 here: the UP step runs first).
C18_Witness ==
    CycleDone /\ {"UP", "DOWN"} \subseteq fired /\ cruise_speed = -2000

\* C19: cruise_mode starts false, changes exactly in the iterations with an
\* LB rising edge, so it is true iff the number of LB rising edges so far is
\* odd, whatever the other inputs; an LB edge together with a B, UP or DOWN
\* edge applies all of those actions.
C19_ModeAlternates ==
    [][LET edge(b) == b \in pressed' /\ b \notin pressed
       IN  /\ pc = "connect" => (~cruise_mode /\ ~cruise_mode')
           /\ cruise_mode' /= cruise_mode => (pc' = "loop" /\ edge("LB"))
           /\ pc' = "loop" =>
                  /\ edge("LB") => cruise_mode' = ~cruise_mode
                  /\ cruise_mode' = lb_edges_odd'
                  /\ (edge("LB") /\ edge("B")) =>
                         /\ b_color_index' = (b_color_index + 1) % 5
                         /\ Count(rumble_log', <<80, 250>>) = 1
                  /\ (edge("LB") /\ edge("UP") /\ ~edge("DOWN")) =>
                         cruise_speed' = (IF cruise_speed + 100 <= 2000
                                          THEN cruise_speed + 100 ELSE 2000)
                  /\ (edge("LB") /\ edge("DOWN") /\ ~edge("UP")) =>
                         cruise_speed' = (IF cruise_speed - 100 >= -2000
                                          THEN cruise_speed - 100 ELSE -2000)]_vars

\* C19 witness: LB, B and DOWN newly pressed together in CRUISE mode: the
\* mode goes to NORMAL (an even number of LB edges), the colour advances and
\* the speed drops.
C19_Witness ==
    CycleDone /\ pressed = {"LB", "B", "DOWN"} /\ fired = {"LB", "B", "DOWN"}
    /\ ~cruise_mode /\ ~lb_edges_odd /\ stop_calls = 1
    /\ b_color_index = 1 /\ cruise_speed = 900

====
